---- MODULE Spec2Model ----
(***************************************************************************)
(* Model of two packages of the tricorder repository:                      *)
(*   - healthserver (go/healthserver/api.go): the /healthz and /readiness  *)
(*     flags and their four setters, called by concurrent goroutines;      *)
(*   - messages: Metric, its two conversions, ZeroValue and Distribution.  *)
(* The exported functions are translated from their source. What they call *)
(* in files that are not at hand (setHealth, setReady, the HTTP handlers,  *)
(* convertToGoRPC, convertToJson, asJson, Type.SafeZeroValue, the mutation *)
(* of a Distribution) follows the design document of the repository; the   *)
(* comment of each such definition says so.                                *)
(***************************************************************************)
EXTENDS Integers, Sequences, FiniteSets, TLC

VARIABLES
    \* ---- package healthserver ----
    healthStatus,   \* status string behind /healthz ("" means OK)
    readyStatus,    \* status string behind /readiness ("" means OK)
    mutex,          \* per flag: the goroutine holding its lock, or 0
    pc,             \* per goroutine: where it is in its current call
    op,             \* per goroutine: the exported function or endpoint called
    pend,           \* per goroutine: the setHealth/setReady call it is making
    local,          \* per goroutine: the status a handler has read
    resp,           \* per goroutine: the HTTP response its last request got
    lastCall,       \* per flag: the most recent completed setter call
    anySetter,      \* whether any setter has been called yet
    aborted,        \* whether a panic has aborted the process
    \* ---- package messages ----
    m,              \* the Metric being converted in place
    trail,          \* the conversions applied to m so far, oldest first
    zt,             \* the types.Type last passed to ZeroValue
    zv,             \* what that call returned
    dist            \* a Distribution under mutation

hvars == <<healthStatus, readyStatus, mutex, pc, op, pend, local, resp,
           lastCall, anySetter, aborted>>

mvars == <<m, trail, zt, zv>>

dvars == <<dist>>

vars == <<hvars, mvars, dvars>>

\* ------------------------------------------------------------------ bounds

\* Number of goroutines calling setters and serving requests.
NumProcs == 2

\* Longest list a Metric of kind List carries.
MaxListLen == 2

\* Number of conversions applied to one Metric.
MaxCalls == 2

\* Number of mutations applied to one Distribution.
MaxGeneration == 5

Procs == 1..NumProcs

\* Status strings a caller passes: the two reserved ones and real messages.
FailMessages == {"db down", "busy"}

Statuses == {"", "OK"} \cup FailMessages

Flags == {"health", "ready"}

\* --------------------------------------------------- package healthserver

\* The flags at package init: /healthz answers "OK", /readiness answers
\* 503 "not ready".
InitHealthStatus == ""

InitReadyStatus_Empty == ""

InitReadyStatus == "not ready"

\* SetHealthy: setHealth("")
SetHealthyCall_Ready == [flag |-> "ready", status |-> ""]

SetHealthyCall == [flag |-> "health", status |-> ""]

\* SetReady: setReady("")
SetReadyCall_NotReady == [flag |-> "ready", status |-> "not ready"]

SetReadyCall == [flag |-> "ready", status |-> ""]

\* SetNotHealthy: the guard, then setHealth(status)
NotHealthyPanics_EmptyOnly(status) == status = ""

NotHealthyPanics(status) == status = "" \/ status = "OK"

SetNotHealthyCall(status) == [flag |-> "health", status |-> status]

\* SetNotReady: the guard, then setReady(status)
NotReadyPanics(status) == status = "" \/ status = "OK"

SetNotReadyCall(status) == [flag |-> "ready", status |-> status]

NoCall == [flag |-> "none", status |-> ""]

NoResp == [endpoint |-> "none", code |-> 0, body |-> ""]

\* What a handler writes for a status string: 200 "OK" for the empty
\* string, else 503 followed by the status (after the design document).
Response(status) ==
    IF status = "" THEN [code |-> 200, body |-> "OK"]
                   ELSE [code |-> 503, body |-> status]

\* The handler answers from the copy it read under the lock (after the
\* design document).
RespondFrom_Reread(copy, shared) ==
    [code |-> Response(copy).code, body |-> Response(shared).body]

RespondFrom(copy, shared) == Response(copy)

StatusOf(flag) == IF flag = "health" THEN healthStatus ELSE readyStatus

FlagOf(endpoint) == IF endpoint = "/healthz" THEN "health" ELSE "ready"

InitHealth ==
    /\ healthStatus = InitHealthStatus
    /\ readyStatus = InitReadyStatus
    /\ mutex = [f \in Flags |-> 0]
    /\ pc = [p \in Procs |-> "idle"]
    /\ op = [p \in Procs |-> "none"]
    /\ pend = [p \in Procs |-> NoCall]
    /\ local = [p \in Procs |-> ""]
    /\ resp = [p \in Procs |-> NoResp]
    /\ lastCall = [f \in Flags |-> [op |-> "init", status |-> ""]]
    /\ anySetter = FALSE
    /\ aborted = FALSE

\* A goroutine enters a setter: the call it goes on to make is recorded in pend.
Enter(p, name, call) ==
    /\ pc' = [pc EXCEPT ![p] = "setLock"]
    /\ op' = [op EXCEPT ![p] = name]
    /\ pend' = [pend EXCEPT ![p] = call]
    /\ resp' = [resp EXCEPT ![p] = NoResp]
    /\ anySetter' = TRUE
    /\ UNCHANGED <<healthStatus, readyStatus, mutex, local, lastCall, aborted,
                   mvars, dvars>>

\* The panic of a setter: the process aborts.
Panic(p, name, status) ==
    /\ pc' = [pc EXCEPT ![p] = "panicked"]
    /\ op' = [op EXCEPT ![p] = name]
    /\ pend' = [pend EXCEPT ![p] = [flag |-> "none", status |-> status]]
    /\ resp' = [resp EXCEPT ![p] = NoResp]
    /\ anySetter' = TRUE
    /\ aborted' = TRUE
    /\ UNCHANGED <<healthStatus, readyStatus, mutex, local, lastCall,
                   mvars, dvars>>

SetHealthy(p) ==
    /\ ~aborted /\ pc[p] = "idle"
    /\ Enter(p, "SetHealthy", SetHealthyCall)

SetNotHealthy(p, status) ==
    /\ ~aborted /\ pc[p] = "idle"
    /\ IF NotHealthyPanics(status)
         THEN Panic(p, "SetNotHealthy", status)
         ELSE Enter(p, "SetNotHealthy", SetNotHealthyCall(status))

SetNotReady(p, status) ==
    /\ ~aborted /\ pc[p] = "idle"
    /\ IF NotReadyPanics(status)
         THEN Panic(p, "SetNotReady", status)
         ELSE Enter(p, "SetNotReady", SetNotReadyCall(status))

SetReady(p) ==
    /\ ~aborted /\ pc[p] = "idle"
    /\ Enter(p, "SetReady", SetReadyCall)

\* setHealth / setReady: lock the flag and store the status; then unlock
\* and return (after the design document: one exclusive lock per flag).
setStatus(p) ==
    /\ ~aborted /\ pc[p] = "setLock"
    /\ mutex[pend[p].flag] = 0
    /\ mutex' = [mutex EXCEPT ![pend[p].flag] = p]
    /\ IF pend[p].flag = "health"
         THEN healthStatus' = pend[p].status /\ UNCHANGED readyStatus
         ELSE readyStatus' = pend[p].status /\ UNCHANGED healthStatus
    /\ pc' = [pc EXCEPT ![p] = "setUnlock"]
    /\ UNCHANGED <<op, pend, local, resp, lastCall, anySetter, aborted,
                   mvars, dvars>>

setStatusReturn(p) ==
    /\ ~aborted /\ pc[p] = "setUnlock"
    /\ mutex' = [mutex EXCEPT ![pend[p].flag] = 0]
    /\ lastCall' = [lastCall EXCEPT ![pend[p].flag] =
                       [op |-> op[p], status |-> pend[p].status]]
    /\ pc' = [pc EXCEPT ![p] = "idle"]
    /\ pend' = [pend EXCEPT ![p] = NoCall]
    /\ op' = [op EXCEPT ![p] = "none"]
    /\ UNCHANGED <<healthStatus, readyStatus, local, resp,
                   anySetter, aborted,
                   mvars, dvars>>

\* GET /healthz or GET /readiness arrives at goroutine p.
Request(p, endpoint) ==
    /\ ~aborted /\ pc[p] = "idle"
    /\ pc' = [pc EXCEPT ![p] = "getLock"]
    /\ op' = [op EXCEPT ![p] = endpoint]
    /\ pend' = [pend EXCEPT ![p] = [flag |-> FlagOf(endpoint), status |-> ""]]
    /\ resp' = [resp EXCEPT ![p] = NoResp]
    /\ UNCHANGED <<healthStatus, readyStatus, mutex, local, lastCall,
                   anySetter, aborted,
                   mvars, dvars>>

\* The handler: lock the flag and copy the status; unlock; write the
\* response (after the design document).
handlerRead(p) ==
    /\ ~aborted /\ pc[p] = "getLock"
    /\ mutex[pend[p].flag] = 0
    /\ mutex' = [mutex EXCEPT ![pend[p].flag] = p]
    /\ local' = [local EXCEPT ![p] = StatusOf(pend[p].flag)]
    /\ pc' = [pc EXCEPT ![p] = "getUnlock"]
    /\ UNCHANGED <<healthStatus, readyStatus, op, pend, resp, lastCall,
                   anySetter, aborted,
                   mvars, dvars>>

handlerUnlock(p) ==
    /\ ~aborted /\ pc[p] = "getUnlock"
    /\ mutex' = [mutex EXCEPT ![pend[p].flag] = 0]
    /\ pc' = [pc EXCEPT ![p] = "getRespond"]
    /\ UNCHANGED <<healthStatus, readyStatus, op, pend, local, resp, lastCall,
                   anySetter, aborted,
                   mvars, dvars>>

handlerRespond(p) ==
    /\ ~aborted /\ pc[p] = "getRespond"
    /\ resp' = [resp EXCEPT ![p] =
                   [endpoint |-> op[p],
                    code |-> RespondFrom(local[p], StatusOf(pend[p].flag)).code,
                    body |-> RespondFrom(local[p], StatusOf(pend[p].flag)).body]]
    /\ pc' = [pc EXCEPT ![p] = "idle"]
    /\ op' = [op EXCEPT ![p] = "none"]
    /\ pend' = [pend EXCEPT ![p] = NoCall]
    /\ local' = [local EXCEPT ![p] = ""]
    /\ UNCHANGED <<healthStatus, readyStatus, mutex, lastCall,
                   anySetter, aborted,
                   mvars, dvars>>

NextHealth ==
    \/ \E p \in Procs : SetHealthy(p)
    \/ \E p \in Procs, status \in Statuses : SetNotHealthy(p, status)
    \/ \E p \in Procs, status \in Statuses : SetNotReady(p, status)
    \/ \E p \in Procs : SetReady(p)
    \/ \E p \in Procs : setStatus(p)
    \/ \E p \in Procs : setStatusReturn(p)
    \/ \E p \in Procs, endpoint \in {"/healthz", "/readiness"} : Request(p, endpoint)
    \/ \E p \in Procs : handlerRead(p)
    \/ \E p \in Procs : handlerUnlock(p)
    \/ \E p \in Procs : handlerRespond(p)


\* ------------------------------------------------------ package messages

\* types.Type, as the chart of Metric names them.
ScalarKinds ==
    {"Bool", "Int8", "Int16", "Int32", "Int64", "Uint8", "Uint16", "Uint32",
     "Uint64", "Float32", "Float64", "String"}

TimeKinds == {"Time", "Duration", "GoTime", "GoDuration"}

Kinds == ScalarKinds \cup TimeKinds \cup {"Dist", "List", "Unknown"}

\* The Kind/SubType pairs of the chart.
InTable(kind, subType) ==
    \/ kind \in ScalarKinds \cup TimeKinds \cup {"Dist"} /\ subType = "Unknown"
    \/ kind = "List" /\ subType \in ScalarKinds \cup TimeKinds

\* The Go type of Value for a kind of the chart.
GoType(kind) ==
    CASE kind = "Bool" -> "bool"
      [] kind = "Int8" -> "int8"
      [] kind = "Int16" -> "int16"
      [] kind = "Int32" -> "int32"
      [] kind = "Int64" -> "int64"
      [] kind = "Uint8" -> "uint8"
      [] kind = "Uint16" -> "uint16"
      [] kind = "Uint32" -> "uint32"
      [] kind = "Uint64" -> "uint64"
      [] kind = "Float32" -> "float32"
      [] kind = "Float64" -> "float64"
      [] kind = "String" -> "string"
      [] kind = "Dist" -> "*messages.Distribution"
      [] kind = "Time" -> "string"
      [] kind = "Duration" -> "string"
      [] kind = "GoTime" -> "time.Time"
      [] kind = "GoDuration" -> "time.Duration"
      [] OTHER -> "interface{}"

\* The kind a Go RPC kind has in JSON: GoTime and GoDuration are Go RPC only.
JsonKind_TimeForBoth(kind) ==
    IF kind \in {"GoTime", "GoDuration"} THEN "Time" ELSE kind

JsonKind(kind) ==
    CASE kind = "GoTime" -> "Time"
      [] kind = "GoDuration" -> "Duration"
      [] OTHER -> kind

\* The kind a JSON kind has in Go RPC.
GoRPCKind(kind) ==
    CASE kind = "Time" -> "GoTime"
      [] kind = "Duration" -> "GoDuration"
      [] OTHER -> kind

\* The size in bits of a value of an IntXX, UintXX or FloatXX kind.
BitsOf(kind) ==
    CASE kind \in {"Int8", "Uint8"} -> 8
      [] kind \in {"Int16", "Uint16"} -> 16
      [] kind \in {"Int32", "Uint32", "Float32"} -> 32
      [] kind \in {"Int64", "Uint64", "Float64"} -> 64
      [] OTHER -> 0

\* A Go value held in an interface{}: its dynamic type and its content.
\* A time.Time and a time.Duration are kept as whole seconds and nanoseconds
\* of the same sign (sec * 10^9 + nsec is the int64 count of nanoseconds).
\* A string is the sequence of its characters.
GoValue(type, of, sec, nsec, text, elems, ref) ==
    [type |-> type, of |-> of, sec |-> sec, nsec |-> nsec, text |-> text,
     elems |-> elems, ref |-> ref]

Nil == GoValue("nil", "", 0, 0, <<>>, <<>>, "")

Scalar(type, n) == GoValue(type, "", n, 0, <<>>, <<>>, "")

Str(chars) == GoValue("string", "", 0, 0, chars, <<>>, "")

GoTimeValue(t) == GoValue("time.Time", "", t.sec, t.nsec, <<>>, <<>>, "")

GoDurationValue(d) == GoValue("time.Duration", "", d.sec, d.nsec, <<>>, <<>>, "")

ListOf(type, elems) == GoValue("[]", type, 0, 0, <<>>, elems, "")

\* (*Distribution)(nil), and a pointer to a Distribution{} of zero fields.
NilDistribution == GoValue("*messages.Distribution", "", 0, 0, <<>>, <<>>, "nil")

ZeroDistribution == GoValue("*messages.Distribution", "", 0, 0, <<>>, <<>>, "&Distribution{}")

\* -- the string form of a time or duration: seconds, a point, 9 digits
\* (the encoding and its parser are after the design document)

FracDigits == 9

DigitChars == <<"0", "1", "2", "3", "4", "5", "6", "7", "8", "9">>

IsDigit(c) == \E i \in 1..10 : DigitChars[i] = c

DigitOf(c) == (CHOOSE i \in 1..10 : DigitChars[i] = c) - 1

Abs(n) == IF n < 0 THEN -n ELSE n

RECURSIVE FormatNat(_)
FormatNat(n) ==
    IF n < 10 THEN <<DigitChars[n + 1]>>
              ELSE Append(FormatNat(n \div 10), DigitChars[(n % 10) + 1])

RECURSIVE PadLeft(_, _)
PadLeft(chars, width) ==
    IF Len(chars) >= width THEN chars ELSE PadLeft(<<"0">> \o chars, width)

RECURSIVE ParseNat(_)
ParseNat(chars) ==
    IF chars = <<>> THEN 0
    ELSE 10 * ParseNat(SubSeq(chars, 1, Len(chars) - 1)) + DigitOf(chars[Len(chars)])

\* The sign is taken from the seconds alone: lost when they are zero.
FormatSeconds_SignOfSeconds(d) ==
    (IF d.sec < 0 THEN <<"-">> ELSE <<>>)
        \o FormatNat(Abs(d.sec)) \o <<".">>
        \o PadLeft(FormatNat(Abs(d.nsec)), FracDigits)

\* "<seconds>.<9-digit fraction>", the sign on the whole string.
FormatSeconds(d) ==
    (IF d.sec < 0 \/ d.nsec < 0 THEN <<"-">> ELSE <<>>)
        \o FormatNat(Abs(d.sec)) \o <<".">>
        \o PadLeft(FormatNat(Abs(d.nsec)), FracDigits)

\* Parses that exact format: an optional sign, at least one digit, one
\* point, exactly 9 digits. ok is FALSE on any deviation.
ParseSeconds(chars) ==
    LET neg == Len(chars) > 0 /\ chars[1] = "-"
        body == IF neg THEN Tail(chars) ELSE chars
        points == {i \in 1..Len(body) : body[i] = "."}
        good == /\ Cardinality(points) = 1
                /\ \A i \in 1..Len(body) : body[i] = "." \/ IsDigit(body[i])
                /\ \A i \in points : i > 1 /\ Len(body) - i = FracDigits
    IN  IF ~good THEN [ok |-> FALSE, sec |-> 0, nsec |-> 0]
        ELSE LET i == CHOOSE i \in points : TRUE
                 sec == ParseNat(SubSeq(body, 1, i - 1))
                 nsec == ParseNat(SubSeq(body, i + 1, Len(body)))
             IN  [ok |-> TRUE,
                  sec |-> IF neg THEN -sec ELSE sec,
                  nsec |-> IF neg THEN -nsec ELSE nsec]

\* A time.Time or time.Duration value as its JSON string.
AsJsonString(v) == Str(FormatSeconds([sec |-> v.sec, nsec |-> v.nsec]))

\* asJson: an acceptable JSON value, kind and subType for a Go RPC value
\* (after the design document, whose encoding is in seconds whatever the
\* unit). There is no error result: a pair it does not know is returned as
\* it came.
asJson(value, kind, subType, unit) ==
    CASE kind \in {"GoTime", "GoDuration"} ->
            [value |-> AsJsonString(value), kind |-> JsonKind(kind), subType |-> subType]
      [] kind = "List" /\ subType \in {"GoTime", "GoDuration"} ->
            [value |-> ListOf("string", [i \in 1..Len(value.elems) |->
                                            AsJsonString(value.elems[i])]),
             kind |-> kind, subType |-> JsonKind(subType)]
      [] OTHER -> [value |-> value, kind |-> kind, subType |-> subType]

\* convertToJson: Value, Kind and SubType from asJson; TimeStamp as a string,
\* empty when there is none (after the design document).
convertToJson(x) ==
    LET j == asJson(x.Value, x.Kind, x.SubType, x.Unit) IN
    [x EXCEPT !.Value = j.value, !.Kind = j.kind, !.SubType = j.subType,
              !.TimeStamp = IF x.TimeStamp = Nil THEN Str(<<>>)
                            ELSE AsJsonString(x.TimeStamp)]

\* A JSON string as the time.Time or time.Duration it stands for.
FromJsonString(type, v) ==
    LET d == ParseSeconds(v.text) IN
    GoValue(type, "", d.sec, d.nsec, <<>>, <<>>, "")

Parses(v) == v.type = "string" /\ ParseSeconds(v.text).ok

\* convertToGoRPC: the metric made Go RPC compatible, and the error returned
\* (after the design document).
convertToGoRPC(x) ==
    LET elemType == GoType(GoRPCKind(x.SubType))
        tsOk == x.TimeStamp = Str(<<>>) \/ Parses(x.TimeStamp)
        ts == IF x.TimeStamp = Str(<<>>) THEN Nil
              ELSE FromJsonString("time.Time", x.TimeStamp)
    IN
    IF ~InTable(x.Kind, x.SubType)
      THEN [metric |-> x, err |-> "unsupported kind"]
    ELSE IF x.Kind \in {"Time", "Duration"}
      THEN IF Parses(x.Value) /\ tsOk
             THEN [metric |-> [x EXCEPT
                                 !.Value = FromJsonString(GoType(GoRPCKind(x.Kind)), x.Value),
                                 !.Kind = GoRPCKind(x.Kind),
                                 !.TimeStamp = ts],
                   err |-> "nil"]
             ELSE [metric |-> x, err |-> "malformed time/duration literal"]
    ELSE IF x.Kind = "List" /\ x.SubType \in {"Time", "Duration"}
      THEN IF (\A i \in 1..Len(x.Value.elems) : Parses(x.Value.elems[i])) /\ tsOk
             THEN [metric |-> [x EXCEPT
                                 !.Value = ListOf(elemType,
                                     [i \in 1..Len(x.Value.elems) |->
                                         FromJsonString(elemType, x.Value.elems[i])]),
                                 !.SubType = GoRPCKind(x.SubType),
                                 !.TimeStamp = ts],
                   err |-> "nil"]
             ELSE [metric |-> x, err |-> "malformed time/duration literal"]
    ELSE IF tsOk
      THEN [metric |-> [x EXCEPT !.TimeStamp = ts], err |-> "nil"]
      ELSE [metric |-> x, err |-> "malformed time/duration literal"]

\* Type.SafeZeroValue: the zero value of a kind, an error for Unknown (after
\* the design document).
SafeZeroValue(t) ==
    CASE t \in ScalarKinds \ {"String"} -> [value |-> Scalar(GoType(t), 0), err |-> "nil"]
      [] t \in {"String", "Time", "Duration"} -> [value |-> Str(<<>>), err |-> "nil"]
      [] t = "GoTime" -> [value |-> GoTimeValue([sec |-> 0, nsec |-> 0]), err |-> "nil"]
      [] t = "GoDuration" -> [value |-> GoDurationValue([sec |-> 0, nsec |-> 0]), err |-> "nil"]
      [] t = "List" -> [value |-> ListOf("interface{}", <<>>), err |-> "nil"]
      [] OTHER -> [value |-> Nil, err |-> "unsupported kind"]

ZeroValue_ZeroStruct(t) ==
    IF t = "Dist" THEN [value |-> ZeroDistribution, err |-> "nil"]
                  ELSE SafeZeroValue(t)

\* ZeroValue: (*Distribution)(nil) for types.Dist, else t.SafeZeroValue().
ZeroValue(t) ==
    IF t = "Dist" THEN [value |-> NilDistribution, err |-> "nil"]
                  ELSE SafeZeroValue(t)

\* -- the metrics a run starts from

SeqsUpTo(S, n) == UNION {[1..k -> S] : k \in 0..n}

TimeSamples ==
    {[sec |-> 0, nsec |-> 0], [sec |-> 0, nsec |-> 1], [sec |-> 3, nsec |-> 0],
     [sec |-> 1234567890, nsec |-> 999999999]}

DurationSamples ==
    {[sec |-> 0, nsec |-> 0], [sec |-> -1, nsec |-> -500000000],
     [sec |-> 0, nsec |-> -500000000], [sec |-> 90, nsec |-> 250000000]}

TimeListSamples == {[sec |-> 0, nsec |-> 1], [sec |-> 3, nsec |-> 0]}

DurationListSamples == {[sec |-> -1, nsec |-> -500000000], [sec |-> 0, nsec |-> -1]}

\* JSON strings of times.
TimeLiterals ==
    {<<"0", ".", "0", "0", "0", "0", "0", "0", "0", "0", "0">>,
     <<"0", ".", "0", "0", "0", "0", "0", "0", "0", "0", "1">>,
     <<"3", ".", "0", "0", "0", "0", "0", "0", "0", "0", "0">>,
     <<"1", "2", "3", "4", "5", "6", "7", "8", "9", "0", ".", "9", "9", "9", "9", "9", "9", "9", "9", "9">>}

\* JSON strings of durations.
DurationLiterals ==
    {<<"0", ".", "0", "0", "0", "0", "0", "0", "0", "0", "0">>,
     <<"-", "1", ".", "5", "0", "0", "0", "0", "0", "0", "0", "0">>,
     <<"-", "0", ".", "5", "0", "0", "0", "0", "0", "0", "0", "0">>,
     <<"9", "0", ".", "2", "5", "0", "0", "0", "0", "0", "0", "0">>}

\* JSON strings of the times in a list.
TimeListLiterals ==
    {<<"0", ".", "0", "0", "0", "0", "0", "0", "0", "0", "1">>,
     <<"3", ".", "0", "0", "0", "0", "0", "0", "0", "0", "0">>}

\* JSON strings of the durations in a list.
DurationListLiterals ==
    {<<"-", "1", ".", "5", "0", "0", "0", "0", "0", "0", "0", "0">>,
     <<"-", "0", ".", "0", "0", "0", "0", "0", "0", "0", "0", "1">>}

\* Strings in the format that no time or duration is written as.
UnusualLiterals ==
    {<<"-", "0", ".", "0", "0", "0", "0", "0", "0", "0", "0", "0">>,
     <<"0", "1", ".", "5", "0", "0", "0", "0", "0", "0", "0", "0">>}

\* Strings that are not in the format.
MalformedLiterals ==
    {<<"1", ".", "5">>,
     <<"1", "5">>,
     <<"a", ".", "0", "0", "0", "0", "0", "0", "0", "0", "0">>,
     <<".", "0", "0", "0", "0", "0", "0", "0", "0", "0">>,
     <<"1", ".", "5", "e", "+", "0", "0">>}

ScalarSamples(kind) ==
    CASE kind = "String" -> {Str(<<>>), Str(<<"a", "b">>)}
      [] kind = "Dist" -> {NilDistribution, ZeroDistribution}
      [] OTHER -> {Scalar(GoType(kind), 0), Scalar(GoType(kind), 1)}

\* Values in the Go RPC representation, by kind and subType.
GoRPCSamples(kind, subType) ==
    CASE kind = "GoTime" -> {GoTimeValue(t) : t \in TimeSamples}
      [] kind = "GoDuration" -> {GoDurationValue(d) : d \in DurationSamples}
      [] kind = "List" /\ subType = "GoTime" ->
            {ListOf("time.Time", l) :
                l \in SeqsUpTo({GoTimeValue(t) : t \in TimeListSamples}, MaxListLen)}
      [] kind = "List" /\ subType = "GoDuration" ->
            {ListOf("time.Duration", l) :
                l \in SeqsUpTo({GoDurationValue(d) : d \in DurationListSamples}, MaxListLen)}
      [] kind = "List" ->
            {ListOf(GoType(subType), l) :
                l \in SeqsUpTo({Scalar(GoType(subType), 1), Scalar(GoType(subType), 2)},
                               MaxListLen)}
      [] OTHER -> ScalarSamples(kind)

\* Values in the JSON representation, by kind and subType.
JsonSamples(kind, subType) ==
    CASE kind = "Time" ->
            {Str(c) : c \in TimeLiterals \cup UnusualLiterals \cup MalformedLiterals}
      [] kind = "Duration" ->
            {Str(c) : c \in DurationLiterals \cup UnusualLiterals \cup MalformedLiterals}
      [] kind = "List" /\ subType = "Time" ->
            {ListOf("string", l) :
                l \in SeqsUpTo({Str(c) : c \in TimeListLiterals \cup {<<"1", ".", "5">>}},
                               MaxListLen)}
      [] kind = "List" /\ subType = "Duration" ->
            {ListOf("string", l) :
                l \in SeqsUpTo({Str(c) : c \in DurationListLiterals \cup {<<"1", ".", "5">>}},
                               MaxListLen)}
      [] kind = "List" ->
            {ListOf(GoType(subType), l) :
                l \in SeqsUpTo({Scalar(GoType(subType), 1), Scalar(GoType(subType), 2)},
                               MaxListLen)}
      [] OTHER -> ScalarSamples(kind)

GoRPCTimeStamps == {Nil} \cup {GoTimeValue(t) : t \in {[sec |-> 0, nsec |-> 0],
                                                      [sec |-> 1234567890, nsec |-> 999999999]}}

JsonTimeStamps ==
    {Str(<<>>), Str(<<"0", ".", "0", "0", "0", "0", "0", "0", "0", "0", "0">>),
     Str(<<"1", "2", "3", "4", "5", "6", "7", "8", "9", "0", ".", "9", "9", "9", "9", "9", "9", "9", "9", "9">>), Str(<<"1", ".", "5">>)}

\* Pairs that are not in the chart.
UnknownPairs ==
    {<<"Unknown", "Unknown">>, <<"List", "Unknown">>, <<"List", "Dist">>,
     <<"List", "List">>, <<"Int32", "Int32">>}

GoRPCPairs ==
    {pr \in Kinds \X Kinds :
        /\ InTable(pr[1], pr[2])
        /\ pr[1] \notin {"Time", "Duration"} /\ pr[2] \notin {"Time", "Duration"}}

JsonPairs ==
    {pr \in Kinds \X Kinds :
        /\ InTable(pr[1], pr[2])
        /\ pr[1] \notin {"GoTime", "GoDuration"} /\ pr[2] \notin {"GoTime", "GoDuration"}}

NewMetric(kind, subType, unit, value, ts) ==
    [Path |-> "/proc/foo", Description |-> "a metric", Unit |-> unit,
     Kind |-> kind, SubType |-> subType, Bits |-> BitsOf(kind),
     Value |-> value, TimeStamp |-> ts, GroupId |-> 7]

Units == {"None", "Second"}

GoRPCMetrics ==
    UNION {{NewMetric(pr[1], pr[2], u, v, ts) :
               u \in Units, v \in GoRPCSamples(pr[1], pr[2]), ts \in GoRPCTimeStamps} :
           pr \in GoRPCPairs}

JsonMetrics ==
    UNION {{NewMetric(pr[1], pr[2], u, v, ts) :
               u \in Units, v \in JsonSamples(pr[1], pr[2]), ts \in JsonTimeStamps} :
           pr \in JsonPairs}

UnknownMetrics ==
    UNION {{NewMetric(pr[1], pr[2], u, v, ts) :
               u \in Units, v \in {Scalar("int64", 1), ListOf("int64", <<Scalar("int64", 1)>>)},
               ts \in {Nil, Str(<<>>)}} :
           pr \in UnknownPairs}

NoZero == [value |-> Nil, err |-> "none"]

IdleMessages ==
    /\ m = NewMetric("Unknown", "Unknown", "None", Nil, Nil)
    /\ trail = <<>>
    /\ zt = "none"
    /\ zv = NoZero

InitMessages ==
    /\ m \in GoRPCMetrics \cup JsonMetrics \cup UnknownMetrics
    /\ trail = <<>>
    /\ zt = "none"
    /\ zv = NoZero

\* A conversion is applied to a metric that is in the other representation
\* (seen on its TimeStamp) and that no earlier conversion has failed on.
Convertible ==
    /\ Len(trail) < MaxCalls
    /\ trail # <<>> => trail[Len(trail)].err = "nil"

ConvertToGoRPC_DropsError ==
    /\ Convertible
    /\ m.TimeStamp.type = "string"
    /\ m' = convertToGoRPC(m).metric
    /\ trail' = Append(trail, [op |-> "ConvertToGoRPC", before |-> m, err |-> "nil"])
    /\ UNCHANGED <<zt, zv, hvars, dvars>>

\* ConvertToGoRPC: return m.convertToGoRPC()
ConvertToGoRPC ==
    /\ Convertible
    /\ m.TimeStamp.type = "string"
    /\ m' = convertToGoRPC(m).metric
    /\ trail' = Append(trail, [op |-> "ConvertToGoRPC", before |-> m,
                               err |-> convertToGoRPC(m).err])
    /\ UNCHANGED <<zt, zv, hvars, dvars>>

\* ConvertToJson: m.convertToJson(); the method has no result, so the trail
\* records that it returned with no error.
ConvertToJson ==
    /\ Convertible
    /\ m.TimeStamp.type # "string"
    /\ m' = convertToJson(m)
    /\ trail' = Append(trail, [op |-> "ConvertToJson", before |-> m, err |-> "nil"])
    /\ UNCHANGED <<zt, zv, hvars, dvars>>

\* ZeroValue is asked for the zero of the metric's kind or of its subType.
ZeroValueCall(t) ==
    /\ t \in {m.Kind, m.SubType}
    /\ zt' = t
    /\ zv' = ZeroValue(t)
    /\ UNCHANGED <<m, trail, hvars, dvars>>

NextMessages ==
    \/ ConvertToGoRPC
    \/ ConvertToJson
    \/ \E t \in Kinds : ZeroValueCall(t)



\* ------------------------------------------------- Distribution

\* Upper bounds of the ranges; the last range has none.
RangeUppers == <<10, 20, 30>>

\* Values added to the distribution.
AddedValues == {5, 15, 25, 35}

\* A Distribution no value has been added to. Average and Median, which
\* follow from the values added, are left out.
NewDistribution ==
    [Min |-> 0, Max |-> 0, Sum |-> 0, Count |-> 0, Generation |-> 0,
     IsNotCumulative |-> FALSE,
     Ranges |-> [i \in 1..(Len(RangeUppers) + 1) |->
                   [Lower |-> IF i = 1 THEN 0 ELSE RangeUppers[i - 1],
                    Upper |-> IF i > Len(RangeUppers) THEN 0 ELSE RangeUppers[i],
                    Count |-> 0]]]

\* The range a value falls in: Lower inclusive, Upper exclusive.
RangeIndex(v) ==
    CHOOSE i \in 1..(Len(RangeUppers) + 1) :
        /\ i = 1 \/ RangeUppers[i - 1] <= v
        /\ i > Len(RangeUppers) \/ v < RangeUppers[i]

NextGeneration_Skips(g) == g + 2

\* Generation: "incremented by 1 each time this distribution changes".
NextGeneration(g) == g + 1

InitDist == dist = NewDistribution

\* A value is added: the one mutation of a Distribution (after the design
\* document).
Add(v) ==
    /\ dist.Generation < MaxGeneration
    /\ dist' = [dist EXCEPT
               !.Min = IF dist.Count = 0 \/ v < dist.Min THEN v ELSE dist.Min,
               !.Max = IF dist.Count = 0 \/ v > dist.Max THEN v ELSE dist.Max,
               !.Sum = dist.Sum + v,
               !.Count = dist.Count + 1,
               !.Generation = NextGeneration(dist.Generation),
               !.Ranges[RangeIndex(v)].Count = @ + 1]
    /\ UNCHANGED <<hvars, mvars>>

NextDist == \E v \in AddedValues : Add(v)

InitDistribution == InitHealth /\ IdleMessages /\ InitDist

SpecDist == InitDistribution /\ [][NextDist]_vars

InitHealthServer == InitHealth /\ IdleMessages /\ InitDist

SpecHealth == InitHealthServer /\ [][NextHealth]_vars

InitMetric == InitHealth /\ InitMessages /\ InitDist

SpecMessages == InitMetric /\ [][NextMessages]_vars

\* ------------------------------------------- properties of healthserver

HealthSetters == {"SetHealthy", "SetNotHealthy"}

ReadySetters == {"SetReady", "SetNotReady"}

Sent(p) == [code |-> resp[p].code, body |-> resp[p].body]

\* C2: SetNotHealthy(status) and SetNotReady(status) panic, and abort the
\* process instead of going on to store the status, exactly when status is
\* "" or "OK"; with any other status, and in SetHealthy and SetReady, the
\* call does not panic.
C2_PanicOnOkStatus ==
    \A p \in Procs :
        /\ op[p] \in {"SetNotHealthy", "SetNotReady"} =>
              IF pend[p].status \in {"", "OK"}
                THEN pc[p] = "panicked" /\ aborted
                ELSE pc[p] \in {"setLock", "setUnlock"}
        /\ op[p] \in {"SetHealthy", "SetReady"} => pc[p] \in {"setLock", "setUnlock"}
        /\ pc[p] = "panicked" => op[p] \in {"SetNotHealthy", "SetNotReady"}

\* SetNotReady("OK") has panicked while /healthz was failing and /readiness OK.
C2_Witness ==
    \E p \in Procs :
        /\ pc[p] = "panicked" /\ op[p] = "SetNotReady" /\ pend[p].status = "OK"
        /\ healthStatus = "db down" /\ readyStatus = ""

\* The response an endpoint owes to the most recent completed setter call on
\* its flag.
Expected(flag) ==
    LET c == lastCall[flag] IN
    CASE c.op = "init" ->
            IF flag = "health" THEN [code |-> 200, body |-> "OK"]
                               ELSE [code |-> 503, body |-> "not ready"]
      [] flag = "health" /\ c.op = "SetHealthy" -> [code |-> 200, body |-> "OK"]
      [] flag = "health" /\ c.op = "SetNotHealthy" -> [code |-> 503, body |-> c.status]
      [] flag = "ready" /\ c.op = "SetReady" -> [code |-> 200, body |-> "OK"]
      [] flag = "ready" /\ c.op = "SetNotReady" -> [code |-> 503, body |-> c.status]
      [] OTHER -> [code |-> 0, body |-> "no such call on this flag"]

\* C3: each endpoint reports the most recent completed setter call on its
\* own flag: whenever no call holds the flag's lock the endpoint's response
\* is the one that call asks for (503 and M after SetNotHealthy(M) or
\* SetNotReady(M), 200 "OK" after SetHealthy() or SetReady()), and so is the
\* status a handler has read under the lock.
C3_ReportsLastSetter ==
    /\ \A f \in Flags : mutex[f] = 0 => Response(StatusOf(f)) = Expected(f)
    /\ \A p \in Procs :
          pc[p] = "getUnlock" => Response(local[p]) = Expected(pend[p].flag)

\* /healthz answered 503 "db down" after SetNotHealthy("db down"), and 200 "OK"
\* after the SetHealthy() that followed.
C3_Witness ==
    \E p, q \in Procs :
        /\ resp[p] = [endpoint |-> "/healthz", code |-> 503, body |-> "db down"]
        /\ resp[q] = [endpoint |-> "/healthz", code |-> 200, body |-> "OK"]
        /\ lastCall["health"] = [op |-> "SetHealthy", status |-> ""]

\* C6: before any setter has been called, /healthz answers 200 "OK" and
\* /readiness answers 503 "not ready".
C6_DefaultState ==
    ~anySetter =>
        /\ Response(healthStatus) = [code |-> 200, body |-> "OK"]
        /\ Response(readyStatus) = [code |-> 503, body |-> "not ready"]
        /\ \A p \in Procs :
              /\ resp[p].endpoint = "/healthz" => Sent(p) = [code |-> 200, body |-> "OK"]
              /\ resp[p].endpoint = "/readiness" =>
                    Sent(p) = [code |-> 503, body |-> "not ready"]

\* Both endpoints have been served before any setter call.
C6_Witness ==
    /\ ~anySetter
    /\ \E p, q \in Procs :
          /\ resp[p] = [endpoint |-> "/healthz", code |-> 200, body |-> "OK"]
          /\ resp[q] = [endpoint |-> "/readiness", code |-> 503, body |-> "not ready"]

\* The statuses one setter call, or package init, can leave in a flag.
WholeStatuses(flag) ==
    {""} \cup FailMessages
         \cup (IF flag = "health" THEN {InitHealthStatus} ELSE {InitReadyStatus})

\* C7: under every interleaving of setter calls and requests, each response
\* sent is the pair (code, body) of one status stored as a whole by a single
\* setter call or by package init: never 503 with body "OK", never 200 with
\* a failure message.
C7_NoTornRead ==
    \A p \in Procs :
        resp[p] # NoResp =>
            \E s \in WholeStatuses(FlagOf(resp[p].endpoint)) : Sent(p) = Response(s)

\* A /healthz request answered 503 "db down" while a concurrent SetHealthy has
\* already stored "" and not yet returned.
C7_Witness ==
    \E p, q \in Procs :
        /\ p # q
        /\ resp[p] = [endpoint |-> "/healthz", code |-> 503, body |-> "db down"]
        /\ pc[q] = "setUnlock" /\ op[q] = "SetHealthy"
        /\ healthStatus = ""

\* C9: every step of SetHealthy or SetNotHealthy leaves the readiness flag
\* (and so the /readiness response) as it was, and every step of SetReady or
\* SetNotReady leaves the health flag (and the /healthz response) as it was.
C9_FlagsIndependent ==
    [][\A p \in Procs :
          /\ ((op[p] \in HealthSetters \/ op'[p] \in HealthSetters) /\ pc'[p] # pc[p])
                => /\ readyStatus' = readyStatus
                   /\ Response(readyStatus') = Response(readyStatus)
          /\ ((op[p] \in ReadySetters \/ op'[p] \in ReadySetters) /\ pc'[p] # pc[p])
                => /\ healthStatus' = healthStatus
                   /\ Response(healthStatus') = Response(healthStatus)]_vars

\* SetNotHealthy("db down") has completed and the readiness flag is still the
\* one package init left.
C9_Witness ==
    /\ lastCall["health"] = [op |-> "SetNotHealthy", status |-> "db down"]
    /\ lastCall["ready"].op = "init"
    /\ healthStatus = "db down" /\ readyStatus = InitReadyStatus

\* --------------------------------------------- properties of messages

\* The metric as conversion number i left it.
After(i) == IF i = Len(trail) THEN m ELSE trail[i + 1].before

SampleLiterals ==
    TimeLiterals \cup DurationLiterals \cup TimeListLiterals \cup DurationListLiterals

\* A metric of the chart whose time and duration strings, if it has any, are
\* the strings of times and durations.
Representable(x) ==
    /\ InTable(x.Kind, x.SubType)
    /\ x.TimeStamp.type = "string" =>
          x.TimeStamp.text = <<>> \/ x.TimeStamp.text \in TimeLiterals
    /\ x.Kind \in {"Time", "Duration"} => x.Value.text \in SampleLiterals
    /\ (x.Kind = "List" /\ x.SubType \in {"Time", "Duration"}) =>
          \A i \in 1..Len(x.Value.elems) : x.Value.elems[i].text \in SampleLiterals

\* C1: round trip. For a metric of the chart with representable Value and
\* TimeStamp, ConvertToGoRPC followed by ConvertToJson gives back the JSON
\* metric it started from, and ConvertToJson followed by ConvertToGoRPC gives
\* back the Go RPC metric it started from; neither conversion fails.
C1_RoundTrip ==
    \A i \in 1..(Len(trail) - 1) :
        (Representable(trail[i].before) /\ trail[i].op # trail[i + 1].op) =>
            /\ trail[i].err = "nil"
            /\ trail[i + 1].err = "nil"
            /\ After(i + 1) = trail[i].before

\* The JSON duration "-1.500000000" stamped "0.000000000" has gone to Go RPC
\* and back.
C1_Witness ==
    /\ Len(trail) >= 2
    /\ trail[1].op = "ConvertToGoRPC" /\ trail[2].op = "ConvertToJson"
    /\ trail[1].before.Kind = "Duration"
    /\ trail[1].before.Value.text = <<"-", "1", ".", "5", "0", "0", "0", "0", "0", "0", "0", "0">>
    /\ trail[1].before.TimeStamp.text = <<"0", ".", "0", "0", "0", "0", "0", "0", "0", "0", "0">>
    /\ After(2) = trail[1].before

SameFrame(x, y) ==
    /\ x.Path = y.Path /\ x.Description = y.Description /\ x.Unit = y.Unit
    /\ x.Bits = y.Bits /\ x.GroupId = y.GroupId

KindInJson(k) ==
    IF k = "GoTime" THEN "Time" ELSE IF k = "GoDuration" THEN "Duration" ELSE k

KindInGoRPC(k) ==
    IF k = "Time" THEN "GoTime" ELSE IF k = "Duration" THEN "GoDuration" ELSE k

\* C4 as stated: a successful conversion of a metric of the chart leaves
\* Kind, SubType, Path, Description, Unit, Bits and GroupId as they were.
C4_KindUnchanged ==
    \A i \in 1..Len(trail) :
        (InTable(trail[i].before.Kind, trail[i].before.SubType) /\ trail[i].err = "nil") =>
            /\ SameFrame(After(i), trail[i].before)
            /\ After(i).Kind = trail[i].before.Kind
            /\ After(i).SubType = trail[i].before.SubType

\* C4, amended: a successful conversion of a metric of the chart leaves Path,
\* Description, Unit, Bits and GroupId as they were; Kind and SubType are
\* left as they were except that ConvertToJson turns GoTime into Time and
\* GoDuration into Duration, and ConvertToGoRPC turns Time into GoTime and
\* Duration into GoDuration.
C4_FrameExceptTimeKinds ==
    \A i \in 1..Len(trail) :
        (InTable(trail[i].before.Kind, trail[i].before.SubType) /\ trail[i].err = "nil") =>
            /\ SameFrame(After(i), trail[i].before)
            /\ trail[i].op = "ConvertToJson" =>
                  /\ After(i).Kind = KindInJson(trail[i].before.Kind)
                  /\ After(i).SubType = KindInJson(trail[i].before.SubType)
            /\ trail[i].op = "ConvertToGoRPC" =>
                  /\ After(i).Kind = KindInGoRPC(trail[i].before.Kind)
                  /\ After(i).SubType = KindInGoRPC(trail[i].before.SubType)

\* A list of two time.Duration has been converted to JSON: its SubType went
\* from GoDuration to Duration.
C4_Witness ==
    /\ Len(trail) >= 1
    /\ trail[1].op = "ConvertToJson"
    /\ trail[1].before.Kind = "List" /\ trail[1].before.SubType = "GoDuration"
    /\ Len(trail[1].before.Value.elems) = 2
    /\ After(1).Kind = "List" /\ After(1).SubType = "Duration"

C8_ZeroValue ==
    zt # "none" =>
        /\ zt = "Dist" =>
              /\ zv = [value |-> NilDistribution, err |-> "nil"]
              /\ zv.value.ref = "nil"
              /\ zv.value # ZeroDistribution
        /\ zt # "Dist" => zv = SafeZeroValue(zt)

\* ZeroValue(types.Dist) has been called.
C8_Witness == zt = "Dist" /\ zv.value = NilDistribution /\ zv.err = "nil"

\* ------------------------------------------ properties of Distribution

====
